---------------------------- MODULE Spec2Model ----------------------------
(***************************************************************************)
(* Multi-registry container registry proxy (functions/[[path]].js).        *)
(* The model follows one request at a time through handleRequest: the      *)
(* router, getUpstreamInfo, the outbound fetch, and the response rewrite   *)
(* of proxyRequest, plus the auth relay handleAuth.  Strings are TLA+      *)
(* strings handled character by character (Len, SubSeq, \o).               *)
(***************************************************************************)
EXTENDS Integers, Sequences, FiniteSets, TLC

VARIABLES
    PROXY_MAP,        \* the registry catalog object (module-level const)
    AUTH_REALMS,      \* the auth-realm table object (module-level const)
    pc,               \* "idle" | "await" | "responded" | "threw"
    request,          \* the inbound request being handled
    route,            \* which branch of handleRequest took the request
    info,             \* result of getUpstreamInfo for the request
    outbound,         \* the outbound fetch issued for the request
    upstream,         \* what the outbound fetch returned
    resp,             \* the response returned to the client
    fetches,          \* outbound fetches issued for the current request
    handled,          \* requests completed so far (capped)
    firstResolution   \* the first path resolved and what it resolved to

vars == <<PROXY_MAP, AUTH_REALMS, pc, request, route, info, outbound,
          upstream, resp, fetches, handled, firstResolution>>

(***************************************************************************)
(* Bounds                                                                  *)
(***************************************************************************)
MaxHandled == 3

(***************************************************************************)
(* String primitives (String.prototype.* as the code uses them)            *)
(***************************************************************************)
Null == "(null)"

Truthy(v) == v # Null /\ v # ""

Min(S) == CHOOSE m \in S : \A n \in S : m <= n

CharAt(s, i) == SubSeq(s, i, i)

startsWith(s, p) == Len(s) >= Len(p) /\ SubSeq(s, 1, Len(p)) = p

\* 1-based position of the first occurrence of p in s at or after from, 0 if none
IndexFrom(s, p, from) ==
    LET M == {i \in from..(Len(s) - Len(p) + 1) : SubSeq(s, i, i + Len(p) - 1) = p}
    IN  IF M = {} THEN 0 ELSE Min(M)

includes(s, p) == IndexFrom(s, p, 1) # 0

\* String.prototype.replace with a string pattern: first occurrence only
replace(s, pat, rep) ==
    LET i == IndexFrom(s, pat, 1)
    IN  IF i = 0 THEN s
        ELSE SubSeq(s, 1, i - 1) \o rep \o SubSeq(s, i + Len(pat), Len(s))

RECURSIVE split(_, _)
split(s, sep) ==
    LET i == IndexFrom(s, sep, 1)
    IN  IF i = 0 THEN <<s>>
        ELSE <<SubSeq(s, 1, i - 1)>> \o split(SubSeq(s, i + Len(sep), Len(s)), sep)

RECURSIVE join(_, _)
join(parts, sep) ==
    IF Len(parts) = 0 THEN ""
    ELSE IF Len(parts) = 1 THEN parts[1]
    ELSE parts[1] \o sep \o join(Tail(parts), sep)

\* Array.prototype.indexOf: 0-based, -1 when absent
indexOf(parts, x) ==
    LET M == {i \in 1..Len(parts) : parts[i] = x}
    IN  IF M = {} THEN -1 ELSE Min(M) - 1

\* Array.prototype.slice(a, b) with 0 <= a, 0-based, end exclusive
slice(parts, a, b) == SubSeq(parts, a + 1, b)

(***************************************************************************)
(* Configuration                                                           *)
(***************************************************************************)
PROXY_MAP_INIT ==
    [k \in {"gcr.io", "k8s.gcr.io", "quay.io", "ghcr.io"} |-> "https://" \o k]

DOCKER_HUB_REGISTRY == "https://registry-1.docker.io"
DOCKER_HUB_HOST == "registry-1.docker.io"

AUTH_REALMS_INIT ==
    [k \in {"registry.docker.io", "gcr.io", "k8s.gcr.io", "quay.io", "ghcr.io"} |->
        CASE k = "registry.docker.io" -> "https://auth.docker.io/token"
          [] k = "gcr.io"             -> "https://gcr.io/v2/token"
          [] k = "k8s.gcr.io"         -> "https://k8s.gcr.io/v2/token"
          [] k = "quay.io"            -> "https://quay.io/v2/auth"
          [] k = "ghcr.io"            -> "https://ghcr.io/token"]

\* Property names every object literal inherits from Object.prototype
ObjectPrototypeKeys ==
    {"constructor", "toString", "valueOf", "hasOwnProperty", "__proto__"}

\* obj[key] on an object literal, as the string a URL constructor or a
\* truthiness test sees: an own property gives its value, an inherited one
\* gives the (truthy) built-in, whose string form is not a URL
GetProperty(obj, key) ==
    IF key \in DOMAIN obj THEN obj[key]
    ELSE IF key \in ObjectPrototypeKeys THEN
        IF key = "__proto__" THEN "[object Object]"
        ELSE "function " \o key \o "() { [native code] }"
    ELSE Null

\* new URL(path, base) with a root-relative path: throws unless base parses
NewURL(path, base) ==
    IF startsWith(base, "https://") /\ Len(base) > Len("https://")
    THEN [ok |-> TRUE, href |-> base \o path]
    ELSE [ok |-> FALSE, href |-> ""]

(***************************************************************************)
(* getUpstreamInfo                                                         *)
(***************************************************************************)
\* the branch taken when PROXY_MAP[potentialRegistry] is truthy
explicitRegistry(parts, upstreamRegistry) ==
    LET upstreamHost == parts[1]
        imagePath == join(slice(parts, 1, Len(parts)), "/")
        u == NewURL("/v2/" \o imagePath, upstreamRegistry)
    IN  [threw |-> ~u.ok, upstreamUrl |-> u.href,
         upstreamHost |-> IF u.ok THEN upstreamHost ELSE ""]

\* the Docker Hub branch: prepend library/ for a single-name image
dockerHub(path, parts, upstreamHost, upstreamRegistry) ==
    LET manifestIndex == indexOf(parts, "manifests")
        blobsIndex == indexOf(parts, "blobs")
        tagsIndex == indexOf(parts, "tags")
        imageNameParts ==
            IF manifestIndex # -1 THEN slice(parts, 0, manifestIndex)
            ELSE IF blobsIndex # -1 THEN slice(parts, 0, blobsIndex)
            ELSE IF tagsIndex # -1 THEN slice(parts, 0, tagsIndex)
            ELSE <<>>
        path2 == IF Len(imageNameParts) = 1 /\ Truthy(imageNameParts[1])
                 THEN "library/" \o path ELSE path
        u == NewURL("/v2/" \o path2, upstreamRegistry)
    IN  [threw |-> ~u.ok, upstreamUrl |-> u.href, upstreamHost |-> upstreamHost]

\* pathname.replace(/^\/v2\//, "")
stripV2(pathname) ==
    IF startsWith(pathname, "/v2/") THEN SubSeq(pathname, 5, Len(pathname))
    ELSE pathname

\* getUpstreamInfo with a fallback mirror that depends on how many requests
\* this instance has served: resolution leaks state across requests
getUpstreamInfo_Fallback(pathname) ==
    LET path == stripV2(pathname)
        parts == split(path, "/")
        upstreamRegistry == GetProperty(PROXY_MAP, parts[1])
    IN  IF Truthy(upstreamRegistry) THEN explicitRegistry(parts, upstreamRegistry)
        ELSE IF handled > 0
             THEN dockerHub(path, parts, "mirror.gcr.io", "https://mirror.gcr.io")
             ELSE dockerHub(path, parts, DOCKER_HUB_HOST, DOCKER_HUB_REGISTRY)

\* getUpstreamInfo taking any first segment that looks like a hostname as
\* the upstream, whether or not the catalog has it
getUpstreamInfo_AnyHostname(pathname) ==
    LET path == stripV2(pathname)
        parts == split(path, "/")
        potentialRegistry == parts[1]
        upstreamRegistry == GetProperty(PROXY_MAP, potentialRegistry)
    IN  IF Truthy(upstreamRegistry) THEN explicitRegistry(parts, upstreamRegistry)
        ELSE IF includes(potentialRegistry, ".")
             THEN explicitRegistry(parts, "https://" \o potentialRegistry)
             ELSE dockerHub(path, parts, DOCKER_HUB_HOST, DOCKER_HUB_REGISTRY)

getUpstreamInfo(pathname) ==
    LET path == stripV2(pathname)
        parts == split(path, "/")
        potentialRegistry == parts[1]
        upstreamRegistry == GetProperty(PROXY_MAP, potentialRegistry)
    IN  IF Truthy(upstreamRegistry) THEN explicitRegistry(parts, upstreamRegistry)
        ELSE dockerHub(path, parts, DOCKER_HUB_HOST, DOCKER_HUB_REGISTRY)

(***************************************************************************)
(* Headers objects: functions from lower-cased header name to value        *)
(***************************************************************************)
NoHeaders == [n \in {} |-> ""]

HeadersGet(h, n) == IF n \in DOMAIN h THEN h[n] ELSE Null

HeadersSet(h, n, v) == [x \in DOMAIN h \cup {n} |-> IF x = n THEN v ELSE h[x]]

\* for (const [key, value] of src.entries()) dst.set(key, value)
HeadersOverlay(dst, src) ==
    [x \in DOMAIN dst \cup DOMAIN src |-> IF x \in DOMAIN src THEN src[x] ELSE dst[x]]

getCORSHeaders ==
    [n \in {"access-control-allow-origin", "access-control-allow-methods",
            "access-control-allow-headers", "access-control-expose-headers",
            "access-control-max-age"} |->
        CASE n = "access-control-allow-origin" -> "*"
          [] n = "access-control-allow-methods" -> "GET, HEAD, POST, PUT, DELETE, OPTIONS"
          [] n = "access-control-allow-headers" ->
                "Authorization, Content-Type, Docker-Content-Digest, Docker-Distribution-Api-Version, Accept, Accept-Encoding"
          [] n = "access-control-expose-headers" ->
                "Docker-Content-Digest, Docker-Distribution-Api-Version, Www-Authenticate, Location, Content-Length, Content-Type"
          [] n = "access-control-max-age" -> "86400"]

(***************************************************************************)
(* Response bodies: what kind of body, and for JSON its top-level keys     *)
(***************************************************************************)
NoBody == [kind |-> "null", keys |-> {}, text |-> ""]
TextBody(t) == [kind |-> "text", keys |-> {}, text |-> t]
JsonBody(ks) == [kind |-> "json", keys |-> ks, text |-> ""]
StreamBody == [kind |-> "stream", keys |-> {}, text |-> ""]

Response(st, hs, b) == [status |-> st, headers |-> hs, body |-> b]

handleCORS == Response(204, getCORSHeaders, NoBody)

(***************************************************************************)
(* URL of the inbound request                                              *)
(***************************************************************************)
ProxyHostname == "proxy.example.com"

\* application/x-www-form-urlencoded byte serializer, on the characters
\* that occur in query values
EncodeChar(c) ==
    CASE c = ":" -> "%3A"
      [] c = "/" -> "%2F"
      [] c = " " -> "+"
      [] c = "," -> "%2C"
      [] OTHER -> c

RECURSIVE FormEncode(_)
FormEncode(s) ==
    IF Len(s) = 0 THEN "" ELSE EncodeChar(CharAt(s, 1)) \o FormEncode(Tail(s))

\* url.searchParams.get(name): value of the first pair named name, or null
SearchParamsGet(search, name) ==
    LET q == IF startsWith(search, "?") THEN Tail(search) ELSE search
        pairs == IF q = "" THEN <<>> ELSE split(q, "&")
        M == {i \in 1..Len(pairs) :
                pairs[i] = name \/ startsWith(pairs[i], name \o "=")}
    IN  IF M = {} THEN Null
        ELSE LET pr == pairs[Min(M)]
             IN  IF pr = name THEN ""
                 ELSE SubSeq(pr, Len(name) + 2, Len(pr))

(***************************************************************************)
(* Www-Authenticate rewrite of proxyRequest                                *)
(***************************************************************************)
KeyChars ==
    {"a", "b", "c", "d", "e", "f", "g", "h", "i", "j", "k", "l", "m",
     "n", "o", "p", "q", "r", "s", "t", "u", "v", "w", "x", "y", "z",
     "A", "B", "C", "D", "E", "F", "G", "H", "I", "J", "K", "L", "M",
     "N", "O", "P", "Q", "R", "S", "T", "U", "V", "W", "X", "Y", "Z", "_"}

\* end of the greedy run [a-zA-Z_]+ that starts at i
RECURSIVE RunEnd(_, _)
RunEnd(s, i) ==
    IF i < Len(s) /\ CharAt(s, i + 1) \in KeyChars THEN RunEnd(s, i + 1) ELSE i

\* params[key] = value on a plain object kept in insertion order
SetParam(params, k, v) ==
    IF k = "__proto__" THEN params
    ELSE IF \E i \in 1..Len(params) : params[i][1] = k
    THEN [i \in 1..Len(params) |-> IF params[i][1] = k THEN <<k, v>> ELSE params[i]]
    ELSE Append(params, <<k, v>>)

ParamGet(params, k) ==
    IF \E i \in 1..Len(params) : params[i][1] = k
    THEN params[CHOOSE i \in 1..Len(params) : params[i][1] = k][2]
    ELSE Null

\* while ((match = /([a-zA-Z_]+)="([^"]*)"/g.exec(wwwAuth)) !== null)
\*     params[match[1]] = match[2]
RECURSIVE paramRegexExec(_, _, _)
paramRegexExec(s, pos, params) ==
    IF pos > Len(s) THEN params
    ELSE IF CharAt(s, pos) \notin KeyChars THEN paramRegexExec(s, pos + 1, params)
    ELSE
        LET j == RunEnd(s, pos)
            close == IF j + 2 <= Len(s) /\ SubSeq(s, j + 1, j + 2) = "=\""
                     THEN IndexFrom(s, "\"", j + 3) ELSE 0
        IN  IF close = 0 THEN paramRegexExec(s, j + 1, params)
            ELSE paramRegexExec(s, close + 1,
                    SetParam(params, SubSeq(s, pos, j), SubSeq(s, j + 3, close - 1)))

RECURSIVE entriesToString(_)
entriesToString(params) ==
    IF Len(params) = 0 THEN ""
    ELSE LET e == params[1][1] \o "=\"" \o params[1][2] \o "\""
         IN  IF Len(params) = 1 THEN e ELSE e \o "," \o entriesToString(Tail(params))

rewriteWwwAuth(wwwAuth, hostname) ==
    LET authType == split(wwwAuth, " ")[1]
        params == paramRegexExec(wwwAuth, 1, <<>>)
    IN  IF Truthy(ParamGet(params, "realm"))
        THEN authType \o " " \o
             entriesToString(SetParam(params, "realm", "https://" \o hostname \o "/v2/auth"))
        ELSE wwwAuth

(***************************************************************************)
(* Location rewrite of proxyRequest                                        *)
(***************************************************************************)
\* the upstream origin is cut out and nothing is put in its place
rewriteLocation_Strip(location, upstreamHost, hostname) ==
    replace(location, "https://" \o upstreamHost, "")

rewriteLocation(location, upstreamHost, hostname) ==
    replace(location, "https://" \o upstreamHost, "https://" \o hostname)

\* proxyRequest after the fetch resolved
proxyResponse(response, upstreamHost, hostname) ==
    LET h1 == HeadersOverlay(response.headers, getCORSHeaders)
        location == HeadersGet(response.headers, "location")
        h2 == IF Truthy(location)
              THEN HeadersSet(h1, "location", rewriteLocation(location, upstreamHost, hostname))
              ELSE h1
        wwwAuth == HeadersGet(response.headers, "www-authenticate")
        h3 == IF Truthy(wwwAuth)
              THEN HeadersSet(h2, "www-authenticate", rewriteWwwAuth(wwwAuth, hostname))
              ELSE h2
    IN  Response(response.status, h3, response.body)

\* the catch block of proxyRequest
proxyError ==
    Response(500,
             HeadersSet(getCORSHeaders, "content-type", "application/json"),
             JsonBody({"error", "message"}))

(***************************************************************************)
(* Inputs: inbound requests and what an upstream may answer                *)
(***************************************************************************)
Methods == {"GET", "POST", "OPTIONS"}

RegistryPaths ==
    {"/v2/",
     "/v2/ubuntu/manifests/latest",
     "/v2/someuser/someimage/manifests/latest",
     "/v2/ubuntu/blobs/sha256:abc",
     "/v2/ubuntu/tags/list",
     "/v2/manifests/latest",
     "/v2//manifests/latest",
     "/v2/_catalog",
     "/v2/gcr.io/google-containers/busybox/manifests/latest",
     "/v2/quay.io/coreos/etcd/blobs/sha256:abc",
     "/v2/ghcr.io/manifests/latest",
     "/v2/constructor/manifests/latest",
     "/v2/evil.example.com/tool/manifests/latest"}

AuthPaths == {"/v2/auth", "/v2/authors/manifests/latest"}

OtherPaths == {"/", "/v2", "/favicon.ico", "/v2x/ubuntu"}

\* query strings of registry API requests (pagination of a tag list)
RegistrySearches == {"?n=10&last=focal"}

AuthSearches ==
    {"",
     "?scope=pull",
     "?service=registry.docker.io&scope=repository:library/ubuntu:pull",
     "?service=quay.io",
     "?service=unknown.io",
     "?service=constructor"}

RequestHeaderSets ==
    {NoHeaders,
     [n \in {"authorization", "user-agent", "origin"} |->
        CASE n = "authorization" -> "Bearer t0k3n"
          [] n = "user-agent" -> "docker/24.0.5"
          [] n = "origin" -> "https://ui.example.com"],
     [n \in {"host", "referer", "cf-ray", "cf-connecting-ip", "cf-visitor", "accept"} |->
        CASE n = "host" -> ProxyHostname
          [] n = "referer" -> "https://ui.example.com/images"
          [] n = "cf-ray" -> "8f2a1b3c4d5e6f70-FRA"
          [] n = "cf-connecting-ip" -> "203.0.113.7"
          [] n = "cf-visitor" -> "{scheme:https}"
          [] n = "accept" -> "application/vnd.oci.image.manifest.v1+json"]}

Requests ==
    [method : Methods, pathname : RegistryPaths \cup OtherPaths,
     search : {""}, headers : RequestHeaderSets]
    \cup
    [method : Methods, pathname : AuthPaths,
     search : AuthSearches, headers : RequestHeaderSets]
    \cup
    [method : {"GET"}, pathname : {"/v2/ubuntu/tags/list", "/v2/quay.io/coreos/etcd/tags/list"},
     search : RegistrySearches, headers : RequestHeaderSets]

Challenges ==
    {"Bearer realm=\"https://auth.docker.io/token\",service=\"registry.docker.io\",scope=\"repository:library/ubuntu:pull\"",
     "Bearer service=\"registry.docker.io\",realm=\"https://auth.docker.io/token\"",
     "Bearer realm=\"https://auth.docker.io/token\",service=\"registry.docker.io\",error=invalid_token",
     "Bearer realm=\"https://quay.io/v2/auth\",max-age=\"60\"",
     "Bearer realm=\"\",service=\"registry.docker.io\"",
     "Basic charset=\"UTF-8\"",
     "Bearer x-realm=\"legacy\",service=\"registry.docker.io\""}

Locations ==
    {"https://registry-1.docker.io/v2/library/ubuntu/blobs/sha256:abc?sig=1",
     "https://gcr.io/v2/google-containers/busybox/blobs/sha256:abc",
     "http://registry-1.docker.io/v2/library/ubuntu/blobs/sha256:abc",
     "/v2/library/ubuntu/blobs/sha256:abc",
     "https://registry-1.docker.io.example.com/v2/x",
     "https://cdn.example.com/blob?from=https://registry-1.docker.io/v2/x"}

UpstreamResponses ==
    {Response(200, NoHeaders, StreamBody),
     Response(200, [n \in {"access-control-allow-origin"} |-> "https://hub.docker.com"],
              StreamBody)}
    \cup {Response(st, [n \in {"www-authenticate"} |-> c], StreamBody) :
            st \in {401}, c \in Challenges}
    \cup {Response(st, [n \in {"location"} |-> l], StreamBody) :
            st \in {307, 201}, l \in Locations}
    \cup {Response(307, [n \in {"location", "www-authenticate"} |->
                            IF n = "location" THEN l ELSE c], StreamBody) :
            l \in {"/v2/library/ubuntu/blobs/sha256:abc"},
            c \in {"Bearer service=\"registry.docker.io\",realm=\"https://auth.docker.io/token\""}}

Nil == [nil |-> TRUE]

(***************************************************************************)
(* handleRequest: the router                                               *)
(***************************************************************************)
\* the /v2/ test placed ahead of the /v2/auth test
Dispatch_ProxyBeforeAuth(req) ==
    IF req.method = "OPTIONS" THEN "preflight"
    ELSE IF startsWith(req.pathname, "/v2/") THEN "proxy"
    ELSE IF startsWith(req.pathname, "/v2/auth") THEN "auth"
    ELSE IF req.pathname = "/v2" THEN "redirect"
    ELSE IF req.pathname = "/" \/ req.pathname = "" THEN "landing"
    ELSE "notfound"

Dispatch(req) ==
    IF req.method = "OPTIONS" THEN "preflight"
    ELSE IF startsWith(req.pathname, "/v2/auth") THEN "auth"
    ELSE IF startsWith(req.pathname, "/v2/") THEN "proxy"
    ELSE IF req.pathname = "/v2" THEN "redirect"
    ELSE IF req.pathname = "/" \/ req.pathname = "" THEN "landing"
    ELSE "notfound"

Init ==
    /\ PROXY_MAP = PROXY_MAP_INIT
    /\ AUTH_REALMS = AUTH_REALMS_INIT
    /\ pc = "idle"
    /\ request = Nil
    /\ route = "none"
    /\ info = Nil
    /\ outbound = Nil
    /\ upstream = Nil
    /\ resp = Nil
    /\ fetches = 0
    /\ handled = 0
    /\ firstResolution = Nil

Accept(req, r) ==
    /\ pc = "idle"
    /\ handled < MaxHandled
    /\ Dispatch(req) = r
    /\ request' = req
    /\ route' = r
    /\ upstream' = Nil
    /\ UNCHANGED <<PROXY_MAP, AUTH_REALMS, handled>>

Respond(r) ==
    /\ pc' = "responded"
    /\ resp' = r

\* if (request.method === "OPTIONS") return handleCORS();
Preflight ==
    \E req \in Requests :
        /\ Accept(req, "preflight")
        /\ Respond(handleCORS)
        /\ UNCHANGED <<info, outbound, fetches, firstResolution>>

\* return Response.redirect(new URL("/v2/", request.url).toString(), 301);
Redirect ==
    \E req \in Requests :
        /\ Accept(req, "redirect")
        /\ Respond(Response(301,
                [n \in {"location"} |-> "https://" \o ProxyHostname \o "/v2/"],
                NoBody))
        /\ UNCHANGED <<info, outbound, fetches, firstResolution>>

\* return new Response(createLandingPage(url), { headers: {...} });
LandingPage ==
    \E req \in Requests :
        /\ Accept(req, "landing")
        /\ Respond(Response(200,
                [n \in {"content-type", "cache-control"} |->
                    IF n = "content-type" THEN "text/html; charset=utf-8"
                    ELSE "public, max-age=3600"],
                TextBody("landing page")))
        /\ UNCHANGED <<info, outbound, fetches, firstResolution>>

\* return new Response("Not Found", { status: 404, headers: getCORSHeaders() });
NotFound ==
    \E req \in Requests :
        /\ Accept(req, "notfound")
        /\ Respond(Response(404,
                HeadersSet(getCORSHeaders, "content-type", "text/plain;charset=UTF-8"),
                TextBody("Not Found")))
        /\ UNCHANGED <<info, outbound, fetches, firstResolution>>

(***************************************************************************)
(* handleAuth up to its fetch                                              *)
(***************************************************************************)
TextPlain == [n \in {"content-type"} |-> "text/plain;charset=UTF-8"]

\* new URL(upstreamAuthUrl) with scope and service set on its searchParams
authUrl(upstreamAuthUrl, scope, service) ==
    LET u == NewURL("", upstreamAuthUrl)
        q1 == IF Truthy(scope) THEN <<"scope=" \o FormEncode(scope)>> ELSE <<>>
        q2 == IF Truthy(service) THEN <<"service=" \o FormEncode(service)>> ELSE <<>>
    IN  [ok |-> u.ok,
         href |-> IF u.ok THEN u.href \o "?" \o join(q1 \o q2, "&") ELSE ""]

HandleAuth ==
    \E req \in Requests :
        /\ Accept(req, "auth")
        /\ LET service == SearchParamsGet(req.search, "service")
               scope == SearchParamsGet(req.search, "scope")
               upstreamAuthUrl == GetProperty(AUTH_REALMS, service)
               u == authUrl(upstreamAuthUrl, scope, service)
           IN  IF ~Truthy(service) THEN
                   /\ Respond(Response(400, TextPlain,
                        TextBody("Missing 'service' parameter in auth request")))
                   /\ UNCHANGED <<outbound, fetches>>
               ELSE IF ~Truthy(upstreamAuthUrl) THEN
                   /\ Respond(Response(400, TextPlain,
                        TextBody("Unsupported auth service: " \o service)))
                   /\ UNCHANGED <<outbound, fetches>>
               ELSE IF ~u.ok THEN
                   \* new URL(upstreamAuthUrl) throws; nothing catches it
                   /\ pc' = "threw"
                   /\ resp' = Nil
                   /\ UNCHANGED <<outbound, fetches>>
               ELSE
                   /\ pc' = "await"
                   /\ resp' = Nil
                   /\ outbound' = [url |-> u.href, method |-> "GET",
                                   headers |-> req.headers]
                   /\ fetches' = fetches + 1
        /\ UNCHANGED <<info, firstResolution>>

(***************************************************************************)
(* proxyRequest up to its fetch                                            *)
(***************************************************************************)
proxyHeaders(headers, upstreamHost) ==
    HeadersSet(HeadersSet(headers, "host", upstreamHost),
               "user-agent", "Docker/20.10.0 (linux)")

ProxyRequest ==
    \E req \in Requests :
        /\ Accept(req, "proxy")
        /\ LET i == getUpstreamInfo(req.pathname)
           IN  /\ info' = i
               /\ firstResolution' =
                    IF firstResolution = Nil
                    THEN [pathname |-> req.pathname, info |-> i]
                    ELSE firstResolution
               /\ IF i.threw THEN
                      /\ Respond(proxyError)
                      /\ UNCHANGED <<outbound, fetches>>
                  ELSE
                      /\ pc' = "await"
                      /\ resp' = Nil
                      /\ outbound' = [url |-> i.upstreamUrl, method |-> req.method,
                                      headers |-> proxyHeaders(req.headers, i.upstreamHost)]
                      /\ fetches' = fetches + 1

(***************************************************************************)
(* The outbound fetch settles                                              *)
(***************************************************************************)
\* const response = await fetch(...): the promise resolves
FetchResolves ==
    \E r \in UpstreamResponses :
        /\ pc = "await"
        /\ upstream' = r
        /\ IF route = "proxy"
           THEN Respond(proxyResponse(r, info.upstreamHost, ProxyHostname))
           ELSE Respond(r)        \* handleAuth: return fetch(authRequest)
        /\ UNCHANGED <<PROXY_MAP, AUTH_REALMS, request, route, info, outbound,
                       fetches, handled, firstResolution>>

\* the promise rejects: proxyRequest catches, handleAuth does not
FetchRejects ==
    /\ pc = "await"
    /\ upstream' = [rejected |-> TRUE]
    /\ IF route = "proxy"
       THEN Respond(proxyError)
       ELSE /\ pc' = "threw"
            /\ resp' = Nil
    /\ UNCHANGED <<PROXY_MAP, AUTH_REALMS, request, route, info, outbound,
                   fetches, handled, firstResolution>>

\* the handler has returned; the per-request context is dropped
Return ==
    /\ pc \in {"responded", "threw"}
    /\ pc' = "idle"
    /\ handled' = handled + 1
    /\ request' = Nil
    /\ route' = "none"
    /\ info' = Nil
    /\ outbound' = Nil
    /\ upstream' = Nil
    /\ resp' = Nil
    /\ fetches' = 0
    /\ UNCHANGED <<PROXY_MAP, AUTH_REALMS, firstResolution>>

Next ==
    \/ Preflight
    \/ HandleAuth
    \/ ProxyRequest
    \/ Redirect
    \/ LandingPage
    \/ NotFound
    \/ FetchResolves
    \/ FetchRejects
    \/ Return

Spec == Init /\ [][Next]_vars

(***************************************************************************)
(* Vocabulary of the properties: a request path, a challenge and a URL as  *)
(* the specification describes them                                        *)
(***************************************************************************)
Resolved == route = "proxy" /\ pc \in {"await", "responded"}

Answered == pc = "responded"

Proxied == route = "proxy" /\ pc = "responded" /\ "status" \in DOMAIN upstream

\* the segments of /v2/<p>
PathRest(pathname) == SubSeq(pathname, 5, Len(pathname))
Segments(pathname) == split(PathRest(pathname), "/")

CatalogTokens == {"gcr.io", "k8s.gcr.io", "quay.io", "ghcr.io"}

\* number of segments before the action segment (manifests, then blobs,
\* then tags); 0 when there is no action segment
NameSegmentCount(segs) ==
    LET pos(a) == Min({i \in 1..Len(segs) : segs[i] = a})
        has(a) == \E i \in 1..Len(segs) : segs[i] = a
    IN  IF has("manifests") THEN pos("manifests") - 1
        ELSE IF has("blobs") THEN pos("blobs") - 1
        ELSE IF has("tags") THEN pos("tags") - 1
        ELSE 0

\* a challenge is <scheme> <comma-separated key=value pairs>, values quoted
\* or bare
\* the commas of s that are not inside a quoted string
TopLevelCommas(s) ==
    {i \in 1..Len(s) :
        /\ CharAt(s, i) = ","
        /\ Cardinality({j \in 1..(i - 1) : CharAt(s, j) = "\""}) % 2 = 0}

\* the pieces of s between its top-level commas
TopLevelItems(s) ==
    LET B == {0} \cup TopLevelCommas(s) \cup {Len(s) + 1}
    IN  {SubSeq(s, a + 1, Min({b \in B : b > a}) - 1) : a \in B \ {Len(s) + 1}}

RECURSIVE TrimLeft(_)
TrimLeft(s) == IF Len(s) > 0 /\ CharAt(s, 1) = " " THEN TrimLeft(Tail(s)) ELSE s

Unquote(v) ==
    IF Len(v) >= 2 /\ CharAt(v, 1) = "\"" /\ CharAt(v, Len(v)) = "\""
    THEN SubSeq(v, 2, Len(v) - 1) ELSE v

ChallengeScheme(h) ==
    LET i == IndexFrom(h, " ", 1) IN IF i = 0 THEN h ELSE SubSeq(h, 1, i - 1)

ChallengeParams(h) ==
    LET i == IndexFrom(h, " ", 1)
        rest == IF i = 0 THEN "" ELSE SubSeq(h, i + 1, Len(h))
        items == IF rest = "" THEN {} ELSE TopLevelItems(rest)
        kv(item) == LET t == TrimLeft(item)
                        e == IndexFrom(t, "=", 1)
                    IN  IF e = 0 THEN <<t, "">>
                        ELSE <<SubSeq(t, 1, e - 1), Unquote(SubSeq(t, e + 1, Len(t)))>>
    IN  {kv(item) : item \in items}

HasRealm(h) == \E p \in ChallengeParams(h) : p[1] = "realm"

OtherParams(h) == {p \in ChallengeParams(h) : p[1] # "realm"}

\* scheme://authority/rest of an absolute URL
IsAbsolute(u) == IndexFrom(u, "://", 1) # 0 /\ ~startsWith(u, "/")
UrlScheme(u) == SubSeq(u, 1, IndexFrom(u, "://", 1) - 1)
UrlAfterScheme(u) == SubSeq(u, IndexFrom(u, "://", 1) + 3, Len(u))
UrlHostEnd(u) ==
    LET a == UrlAfterScheme(u)
        M == {i \in 1..Len(a) : CharAt(a, i) \in {"/", "?", "#"}}
    IN  IF M = {} THEN Len(a) ELSE Min(M) - 1
UrlHost(u) == SubSeq(UrlAfterScheme(u), 1, UrlHostEnd(u))
UrlPathAndQuery(u) == SubSeq(UrlAfterScheme(u), UrlHostEnd(u) + 1, Len(UrlAfterScheme(u)))

ProxyOrigin == "https://" \o ProxyHostname

(***************************************************************************)
(* Properties                                                              *)
(***************************************************************************)

\* C1: every response the router returns carries
\* Access-Control-Allow-Origin: *
CORSOnEveryResponse ==
    Answered => HeadersGet(resp.headers, "access-control-allow-origin") = "*"

\* C2: for a path /v2/<p> whose first segment is not a catalog token, the
\* upstream is Docker Hub, with path /v2/library/<p> if and only if exactly
\* one image-name segment precedes the action segment, and /v2/<p> otherwise
LibraryPrefixIffSingleName ==
    (Resolved /\ Segments(request.pathname)[1] \notin CatalogTokens) =>
        /\ ~info.threw
        /\ info.upstreamHost = "registry-1.docker.io"
        /\ info.upstreamUrl =
              IF NameSegmentCount(Segments(request.pathname)) = 1
              THEN "https://registry-1.docker.io/v2/library/" \o PathRest(request.pathname)
              ELSE "https://registry-1.docker.io/v2/" \o PathRest(request.pathname)

\* C3: an explicit registry is selected if and only if the first segment
\* after /v2/ is a catalog token; then the token is stripped, the URL is
\* {base}/v2/{remaining segments} and the host is the token; for every
\* other first segment the target is registry-1.docker.io
ExplicitIffCatalogToken ==
    Resolved =>
        LET segs == Segments(request.pathname)
        IN  IF segs[1] \in CatalogTokens
            THEN /\ ~info.threw
                 /\ info.upstreamHost = segs[1]
                 /\ info.upstreamUrl =
                       "https://" \o segs[1] \o "/v2/" \o join(Tail(segs), "/")
            ELSE /\ ~info.threw
                 /\ info.upstreamHost = "registry-1.docker.io"
                 /\ startsWith(info.upstreamUrl, "https://registry-1.docker.io/v2/")

\* C4: resolving a path again, whatever was handled in between, gives the
\* upstream URL and host of its first resolution, and no request changes
\* the registry catalog or the auth-realm table
ResolutionDeterministic ==
    /\ PROXY_MAP = PROXY_MAP_INIT
    /\ AUTH_REALMS = AUTH_REALMS_INIT
    /\ (Resolved /\ request.pathname = firstResolution.pathname)
            => info = firstResolution.info

\* a path resolved for the second time, two requests after its first
ResolvedAgain ==
    /\ Resolved
    /\ handled = 2
    /\ request.pathname = firstResolution.pathname
    /\ request.pathname = "/v2/ubuntu/manifests/latest"
    /\ info.upstreamUrl = "https://registry-1.docker.io/v2/library/ubuntu/manifests/latest"

\* C5: when the upstream Www-Authenticate has a realm parameter, the header
\* returned has the same scheme, realm https://{proxyHost}/v2/auth and the
\* same other parameters with the same values, for any order and status
RealmRewrittenOthersKept ==
    (Proxied /\ "www-authenticate" \in DOMAIN upstream.headers
             /\ HasRealm(upstream.headers["www-authenticate"])) =>
        LET up == upstream.headers["www-authenticate"]
            out == HeadersGet(resp.headers, "www-authenticate")
        IN  /\ ChallengeScheme(out) = ChallengeScheme(up)
            /\ <<"realm", ProxyOrigin \o "/v2/auth">> \in ChallengeParams(out)
            /\ OtherParams(out) = OtherParams(up)

RelativeLocationAnchored ==
    (Proxied /\ upstream.status \in 300..399
             /\ "location" \in DOMAIN upstream.headers
             /\ startsWith(upstream.headers["location"], "/")) =>
        HeadersGet(resp.headers, "location") =
            ProxyOrigin \o upstream.headers["location"]

\* C8: a request routed to the auth relay whose service parameter is absent
\* or is not a key of the auth-realm table is answered 400 (naming the
\* service when it is unsupported) and causes no fetch
AuthRejectsUnknownService ==
    (route = "auth" /\ pc # "idle"
        /\ SearchParamsGet(request.search, "service")
              \notin DOMAIN AUTH_REALMS_INIT) =>
        /\ pc = "responded"
        /\ resp.status = 400
        /\ fetches = 0
        /\ outbound = Nil
        /\ LET service == SearchParamsGet(request.search, "service")
           IN  service # Null => includes(resp.body.text, service)

\* C9: when the outbound fetch fails, registry proxy or auth relay, the
\* client gets a 500 with JSON fields error, message and timestamp and the
\* CORS header set; nothing escapes the handler
FetchFailureIsStructured500 ==
    (pc \in {"responded", "threw"} /\ "rejected" \in DOMAIN upstream) =>
        /\ pc = "responded"
        /\ resp.status = 500
        /\ resp.body.kind = "json"
        /\ resp.body.keys = {"error", "message", "timestamp"}
        /\ \A n \in DOMAIN getCORSHeaders :
              HeadersGet(resp.headers, n) = getCORSHeaders[n]

\* C10: the router takes the first match of: OPTIONS -> 204 preflight with
\* no body and no fetch; path starting /v2/auth -> auth relay; path
\* starting /v2/ -> registry proxy; /v2 -> 301 to /v2/; / -> landing page;
\* anything else -> 404
RouterFirstMatch ==
    pc # "idle" =>
        LET m == request.method
            p == request.pathname
        IN  /\ (route = "preflight") <=> (m = "OPTIONS")
            /\ (route = "auth") <=> (m # "OPTIONS" /\ startsWith(p, "/v2/auth"))
            /\ (route = "proxy") <=>
                  (m # "OPTIONS" /\ ~startsWith(p, "/v2/auth") /\ startsWith(p, "/v2/"))
            /\ (route = "redirect") <=> (m # "OPTIONS" /\ p = "/v2")
            /\ (route = "landing") <=> (m # "OPTIONS" /\ p = "/")
            /\ (route = "notfound") <=>
                  (m # "OPTIONS" /\ ~startsWith(p, "/v2/") /\ p \notin {"/v2", "/"})
            /\ route = "preflight" =>
                  /\ pc = "responded"
                  /\ resp.status = 204
                  /\ resp.body.kind = "null"
                  /\ fetches = 0
            /\ route = "auth" =>
                  \/ pc = "threw"
                  \/ pc = "responded" /\ fetches = 0 /\ resp.status = 400
                  \/ fetches = 1 /\ \E k \in DOMAIN AUTH_REALMS_INIT :
                        startsWith(outbound.url, AUTH_REALMS_INIT[k])
            /\ route = "proxy" =>
                  \/ pc = "responded" /\ fetches = 0 /\ resp.status = 500
                  \/ fetches = 1 /\ outbound.url = info.upstreamUrl
            /\ route = "redirect" =>
                  /\ resp.status = 301
                  /\ HeadersGet(resp.headers, "location") = ProxyOrigin \o "/v2/"
                  /\ fetches = 0
            /\ route = "landing" =>
                  /\ resp.status = 200
                  /\ resp.body.text = "landing page"
                  /\ fetches = 0
            /\ route = "notfound" => resp.status = 404 /\ fetches = 0

\* a preflight for the auth endpoint was answered without any fetch
PreflightOnAuthPath ==
    /\ pc = "responded"
    /\ request.method = "OPTIONS"
    /\ request.pathname = "/v2/auth"
    /\ route = "preflight"
    /\ resp.status = 204
    /\ fetches = 0

\* the request headers that identify the proxy hop
HopHeaders == {"host", "origin", "referer", "cf-ray", "cf-connecting-ip", "cf-visitor"}

\* a registry fetch has been issued for the current request
RegistryFetchIssued == route = "proxy" /\ pc \in {"await", "responded"} /\ fetches = 1

\* C11: the headers sent upstream are the inbound headers without host,
\* origin, referer and the edge connection metadata headers, with Host set
\* to the resolved upstream host and every other inbound header unchanged
\* (a User-Agent may be added when the inbound request has none)
HopHeadersStripped ==
    RegistryFetchIssued =>
        LET kept == DOMAIN request.headers \ HopHeaders
        IN  /\ DOMAIN outbound.headers \ {"user-agent"} =
                  (kept \cup {"host"}) \ {"user-agent"}
            /\ outbound.headers["host"] = info.upstreamHost
            /\ \A n \in kept : outbound.headers[n] = request.headers[n]

\* C12: when the inbound request carries a User-Agent, the upstream request
\* carries that same value
InboundUserAgentKept ==
    (RegistryFetchIssued /\ "user-agent" \in DOMAIN request.headers) =>
        outbound.headers["user-agent"] = request.headers["user-agent"]

\* C13: a request causes at most one outbound fetch (none for preflight,
\* redirect, landing page, 404 and rejected auth requests), ends in a
\* response, and a failed fetch is not followed by another fetch
OneFetchOneResponse ==
    /\ fetches <= 1
    /\ route \in {"preflight", "redirect", "landing", "notfound"} => fetches = 0
    /\ (route = "auth" /\ pc = "responded" /\ upstream = Nil) => fetches = 0
    /\ "rejected" \in DOMAIN upstream => fetches = 1
    /\ pc # "threw"

\* C14: when the upstream status is not 3xx, a Location header of the
\* upstream response is returned unchanged
LocationKeptOutside3xx ==
    (Proxied /\ upstream.status \notin 300..399
             /\ "location" \in DOMAIN upstream.headers) =>
        HeadersGet(resp.headers, "location") = upstream.headers["location"]

\* C15: an upstream Www-Authenticate without a realm parameter is returned
\* as it is, and without an upstream Www-Authenticate the response has none
RealmNeverFabricated ==
    Proxied =>
        IF "www-authenticate" \in DOMAIN upstream.headers
        THEN ~HasRealm(upstream.headers["www-authenticate"]) =>
                HeadersGet(resp.headers, "www-authenticate") =
                    upstream.headers["www-authenticate"]
        ELSE "www-authenticate" \notin DOMAIN resp.headers

\* the hosts and issuer URLs of the static configuration
ConfiguredRegistryHosts ==
    {DOCKER_HUB_HOST} \cup {UrlHost(PROXY_MAP_INIT[k]) : k \in DOMAIN PROXY_MAP_INIT}

ConfiguredIssuers == {AUTH_REALMS_INIT[k] : k \in DOMAIN AUTH_REALMS_INIT}

\* a URL without its query string, and its query string
UrlWithoutQuery(u) ==
    LET i == IndexFrom(u, "?", 1) IN IF i = 0 THEN u ELSE SubSeq(u, 1, i - 1)

UrlQuery(u) ==
    LET i == IndexFrom(u, "?", 1) IN IF i = 0 THEN "" ELSE SubSeq(u, i + 1, Len(u))

QueryForwarded ==
    RegistryFetchIssued =>
        UrlQuery(outbound.url) = UrlQuery(request.search)

\* C18: a Location that is an absolute URL whose host is not the resolved
\* upstream host is returned unchanged
ForeignLocationKept ==
    (Proxied /\ "location" \in DOMAIN upstream.headers
             /\ IsAbsolute(upstream.headers["location"])
             /\ UrlHost(upstream.headers["location"]) # info.upstreamHost) =>
        HeadersGet(resp.headers, "location") = upstream.headers["location"]

=============================================================================
